---- MODULE Spec2Model ----
(***************************************************************************)
(* Model of scripts/map_gen.py, generate_hytopia_map: the batch terrain    *)
(* generator.  One run is a walk of the program counter pc through the     *)
(* stages of the function body, in source order:                           *)
(*   normalize -> smooth -> voxel -> [models -> scatter] -> wall ->        *)
(*   panel_count -> panels -> apex -> save -> done  (or error).            *)
(*                                                                         *)
(* Numbers.  The coherent-noise library is an input: a noise field is a    *)
(* function from Cells to small integers (height noise, in noise units)    *)
(* or to tenths (patch noise, so that -1 stands for the cut-off -0.1).     *)
(* The two float computations of the generator are modelled exactly:       *)
(*   int(((c - min) / range) * (max_height - min_height))                  *)
(*       is a truncated integer quotient,                                  *)
(*   int(dome_height * sqrt(1 - (d / radius)^2))                           *)
(*       is the integer square root of a ratio.                            *)
(* On the inputs enumerated here both agree with IEEE double arithmetic.   *)
(*                                                                         *)
(* The random module is an input too: every draw is a choice from a small  *)
(* set.  random.random() yields a multiple of 1/32; scales and entity      *)
(* coordinates are counted in millionths, so that the 4-decimal key format *)
(* has digits to round away; a yaw is one of the angles whose half-angle   *)
(* is a rational point of the unit circle, its sine and cosine counted in  *)
(* fifths.  draws lists, in order, which statement took each draw.         *)
(*                                                                         *)
(* A statement that raises ends the run in pc = "error", with the          *)
(* exception type in err and the source line in err_at.                    *)
(*                                                                         *)
(* scripts/find_ground_blocks.py, the tool that samples ground blocks from *)
(* an artifact, has its own next-state relation and specification.         *)
(***************************************************************************)
EXTENDS Integers, Sequences, FiniteSets, TLC

\* ---------------------------------------------------------------- bounds
MaxRadius == 2
MaxNoise == 2
MaxMinHeight == 1
MaxHeight == 4
MaxWater == 2
MaxPanels == 1
MaxPanelSize == 2
MaxBlockY == 1
MaxFullSample == 3

\* inputs that are sets rather than ranges
DomeHeights == {0, 20}
DistTenths == {3, 6, 9}
Quarters == 0 .. 3
\* the radius of the worlds that are given model definitions: a cell is an
\* inner cell if it is nearer than radius - 5 to the origin
ModelRadius == 7
UnitDraws == {0, 16, 31}
ScaleDraws == {0, 1, 16}
YawDraws == {1, 4}

\* ------------------------------------------------------ program constants
VOIDSOIL == 1
VOIDGRASS == 2
SHADOWROCK == 3
WATER == 4
base_wall_height == 4
skip_rows == 12
shadowrock_radius == 5
SmoothPasses == 2
\* scripts/find_ground_blocks.py
GROUND_BLOCK_IDS == { 1, 2 }
SAMPLE_SIZE == 1000

\* lines 17-38: the block-type registry, as written (the texture of voidgrass
\* has no file extension in the source)
block_types ==
  << [id |-> VOIDSOIL, name |-> "voidsoil",
      textureUri |-> "blocks/voidsoil.png"],
     [id |-> VOIDGRASS, name |-> "voidgrass",
      textureUri |-> "blocks/voidgrass"],
     [id |-> SHADOWROCK, name |-> "shadowrock",
      textureUri |-> "blocks/shadowrock.png"],
     [id |-> WATER, name |-> "water",
      textureUri |-> "blocks/water-still.png", isLiquid |-> TRUE] >>

VARIABLES
  radius, min_height, max_height, water_threshold, dome_height,
  min_panels, max_panels, min_panel_size, max_panel_size,
  environment_models,     \* the caller's list of model definitions
  model_density,          \* in tenths
  model_placement_noise,  \* (x,z) -> placement noise, in tenths
  height_map,             \* (x,z) -> combined raw noise
  patch_map,              \* (x,z) -> patch noise, in tenths
  normalized_height_map,  \* (x,z) -> height after normalization
  smoothed_height_map,    \* (x,z) -> height, updated in place by smoothing
  pass,                   \* smoothing passes completed
  pass_start,             \* pass_start[k]: the map as it was when pass k began
  idx,                    \* loop position, an index into the bounding square
  blocks,                 \* key <<x,y,z>> -> block id
  entities,               \* entity key -> entity record
  writes,                 \* the block writes of the latest step: key -> id
  panel_count, panels_done,
  panel,                  \* the draws of the latest ceiling panel
  draws,                  \* the random draws taken so far, by statement
  placed,                 \* the draws of the latest entity
  saved,                  \* content of hytopia_map.json, <<>> before the dump
  pc, err,
  err_at,                 \* the source line that raised err, 0 if none
  block_order,            \* find_ground_blocks: the keys of the block map
                          \* in the order of the file read, <<>> before
  top_blocks,             \* find_ground_blocks: the entries [x, z, y,
                          \* block_id] of the dictionary, in its order
  ground_coords,          \* find_ground_blocks: the ground coordinates found
  sampled_coords,         \* content of ground_coords.json, <<>> before the dump
  sample_size             \* find_ground_blocks: the configured SAMPLE_SIZE

params == << radius, min_height, max_height, water_threshold, dome_height,
             min_panels, max_panels, min_panel_size, max_panel_size,
             environment_models, model_density >>
fields == << height_map, patch_map, model_placement_noise >>
vars == << params, fields, normalized_height_map, smoothed_height_map, pass,
           pass_start, idx, blocks, entities, writes, panel_count,
           panels_done, panel, draws, placed, saved, pc, err, err_at,
           block_order, top_blocks, ground_coords, sampled_coords,
           sample_size >>
\* the variables of the ground-block sampling tool
tool == << block_order, top_blocks, ground_coords, sampled_coords,
          sample_size >>

\* ------------------------------------------------------------- geometry
Empty == [k \in {} |-> 0]
NoPanel == [center_x |-> 0, center_z |-> 0, dist10 |-> 0, panel_radius |-> 0,
            dome_y_center |-> 0, valid |-> FALSE]
NoEntity == [cell |-> << 0, 0 >>, model |-> 0, scale |-> 0, yaw |-> 0,
             key |-> << 0, 0, 0 >>, valid |-> FALSE]

Min(S) == CHOOSE m \in S : \A n \in S : m <= n
Max(S) == CHOOSE m \in S : \A n \in S : m >= n
Max2(a, b) == IF a >= b THEN a ELSE b
Min2(a, b) == IF a <= b THEN a ELSE b

\* math.sqrt(x**2 + z**2) <= r, for integers
InDisk(r, x, z) == r >= 0 /\ x * x + z * z <= r * r

\* a domain without the distance test: the whole bounding square
CellsSquare(r) == (-r .. r) \X (-r .. r)

\* the valid Cells: the keys of height_map
Cells(r) == { c \in (-r .. r) \X (-r .. r) : InDisk(r, c[1], c[2]) }

\* for x in range(-r, r+1): for z in range(-r, r+1): position i of the scan
Side(r) == 2 * r + 1
SquareEnd(r) == Side(r) * Side(r)
SquareCell(r, i) == << (i \div Side(r)) - r, (i % Side(r)) - r >>

\* the next position >= i of the scan whose cell is a key of the map
NextIdx(r, i, dom) ==
  LET J == { j \in i .. SquareEnd(r) - 1 : SquareCell(r, j) \in dom }
  IN IF J = {} THEN SquareEnd(r) ELSE Min(J)

\* a key that repeats x in the place of z
KeyRepeatsX(x, y, z) == << x, y, x >>

\* f"{x},{y},{z}"
Key(x, y, z) == << x, y, z >>

\* int(a / b) for b > 0: truncation toward zero
TruncDiv(a, b) == IF a >= 0 THEN a \div b ELSE -((-a) \div b)

\* blocks[k] = id for every k written by a step
Write(b, w) ==
  [k \in DOMAIN b \cup DOMAIN w |-> IF k \in DOMAIN w THEN w[k] ELSE b[k]]

\* ------------------------------------------------------ HeightSynthesizer
\* an observed minimum that stays at its default
MinNoiseDefault(hm) == -1
min_noise(hm) == IF DOMAIN hm = {} THEN -1 ELSE Min({hm[c] : c \in DOMAIN hm})
\* an observed maximum that stays at its default
MaxNoiseDefault(hm) == 1
max_noise(hm) == IF DOMAIN hm = {} THEN 1 ELSE Max({hm[c] : c \in DOMAIN hm})
noise_range(hm) ==
  IF max_noise(hm) - min_noise(hm) = 0 THEN 1
  ELSE max_noise(hm) - min_noise(hm)

\* int(((c - min_noise) / noise_range) * (max_height - min_height)) + min_height
\* normalization that forgets to subtract the observed minimum
NormHeightNoShift(c, mn, rng, lo, hi) == TruncDiv(c * (hi - lo), rng) + lo
NormHeight(c, mn, rng, lo, hi) == TruncDiv((c - mn) * (hi - lo), rng) + lo

\* lines 93-99
Normalized(hm, lo, hi) ==
  LET mn == min_noise(hm)
      rng == noise_range(hm)
  IN [pos \in DOMAIN hm |-> NormHeight(hm[pos], mn, rng, lo, hi)]

\* The noise inputs: a flat field with a bump of one or two cells adjacent
\* in x, of any heights (c1 gets v1, its neighbour at x+1 gets v2).
BumpField(r, c1, v1, v2) ==
  [c \in Cells(r) |->
     IF c = c1 THEN v1
     ELSE IF c = << c1[1] + 1, c1[2] >> THEN v2 ELSE 0]

\* the patch-noise input, in tenths: every residue class gets one of PatchVals
PatchField(r) == [c \in Cells(r) |-> ((c[1] + 2 * c[2]) % 3) - 2]

\* the placement-noise input, in tenths: 0 on the cells with z even and
\* x >= 0, and -1 (placement chance 0) on the others, so that a world of
\* radius ModelRadius has two inner cells where a model can be placed
PlacementField(r) ==
  [c \in Cells(r) |-> IF c[2] % 2 = 0 /\ c[1] >= 0 THEN 0 ELSE -10]

Flat(hm) == \A c \in DOMAIN hm : hm[c] = 0

\* model definitions; a URI is its path segments, each split at the dots, and
\* a scale is counted in units of 1/Unit
Unit == 10000000
ModelFull ==
  [uri |-> << << "models" >>, << "flora" >>, << "tree-1", "glb" >> >>,
   name |-> "tree", min_scale |-> Unit, max_scale |-> 2 * Unit]
ModelBare == [uri |-> << << "models" >>, << "rock", "glb" >> >>]
ModelMinOnly == [uri |-> << << "plant-2", "glb" >> >>, min_scale |-> 2 * Unit]
ModelList == << ModelFull, ModelBare, ModelMinOnly >>
\* a definition without the key 'uri', and a list that holds only it
ModelNoUri == [name |-> "rock"]
NoUriList == << ModelNoUri >>

\* The inputs of a run are taken from three families, which vary one group
\* of inputs at a time:
\*   TerrainRun: any bump, any max_height, the highest water table, no panel;
\*               min_height is varied on worlds of radius <= 1
\*   ParamRun:   flat noise, every combination of the parameters, no panel
\*   DomeRun:    flat noise, no water, any dome and max_height, with panels
TerrainRun ==
  /\ max_panels = 0
  /\ dome_height = Max(DomeHeights)
  /\ water_threshold = MaxWater
  /\ min_height = 0 \/ radius <= 1

ParamRun == Flat(height_map) /\ max_panels = 0

DomeRun ==
  /\ Flat(height_map)
  /\ max_panels = MaxPanels
  /\ min_height = 0
  /\ water_threshold = 0

\*   EntitySmoke: a world of radius ModelRadius whose only land is a bump at
\*               the origin, with and without model definitions, no panel
EntitySmoke ==
  /\ model_density = 10
  /\ radius = ModelRadius
  /\ height_map = BumpField(radius, << 0, 0 >>, 1, 0)
  /\ min_height = 0
  /\ max_height = MaxHeight
  /\ water_threshold = 0
  /\ max_panels = 0
  /\ dome_height = Max(DomeHeights)

\*   InvalidRun: a flat world with a parameter no run can complete with: a
\*               negative radius, min_panels > max_panels, or
\*               min_panel_size > max_panel_size
InvalidRun ==
  /\ radius \in { -1, 1 }
  /\ environment_models = << >>
  /\ min_height = 0
  /\ max_height = MaxHeight
  /\ water_threshold = 0
  /\ dome_height = Max(DomeHeights)
  /\ model_density = 10
  /\ height_map = [c \in Cells(radius) |-> 0]
  /\ \E p \in { << 0, 0, 1, MaxPanelSize >>, << 1, 0, 1, MaxPanelSize >>,
                 << 1, 1, MaxPanelSize, 1 >> } :
       /\ radius = -1 \/ p[1] = 1
       /\ min_panels = p[1]
       /\ max_panels = p[2]
       /\ min_panel_size = p[3]
       /\ max_panel_size = p[4]

\* a noise source that returns the constant 0
ZeroField(r) == [c \in Cells(r) |-> 0]

\*   ZeroNoiseRun: the world of radius 1 whose noise source returns 0 for
\*               every field: elevation, patch and placement
ZeroNoiseRun ==
  /\ radius = 1
  /\ environment_models = << >>
  /\ min_height = 0
  /\ max_height = 4
  /\ water_threshold = 0
  /\ dome_height \in DomeHeights
  /\ min_panels = 0
  /\ max_panels \in { 0, MaxPanels }
  /\ min_panel_size = 1
  /\ max_panel_size = MaxPanelSize
  /\ model_density = 10
  /\ height_map = ZeroField(radius)
  /\ patch_map = ZeroField(radius)
  /\ model_placement_noise = ZeroField(radius)

\* the state of a run before its first statement
Fresh ==
  /\ normalized_height_map = Empty
  /\ smoothed_height_map = Empty
  /\ pass = 0
  /\ pass_start = << >>
  /\ idx = 0
  /\ blocks = Empty
  /\ entities = Empty
  /\ writes = Empty
  /\ panel_count = 0
  /\ panels_done = 0
  /\ panel = NoPanel
  /\ draws = << >>
  /\ placed = NoEntity
  /\ saved = << >>
  /\ pc = "normalize"
  /\ err = "none"
  /\ err_at = 0
  /\ block_order = << >>
  /\ top_blocks = << >>
  /\ ground_coords = << >>
  /\ sampled_coords = << >>
  /\ sample_size = SAMPLE_SIZE

Init ==
  /\ \/ /\ radius \in (0 .. MaxRadius) \cup { ModelRadius }
        /\ environment_models \in { << >>, ModelList, NoUriList }
        /\ radius <= MaxRadius => environment_models = << >>
        /\ min_height \in 0 .. MaxMinHeight
        /\ max_height \in min_height .. MaxHeight
        /\ water_threshold \in 0 .. MaxWater
        /\ dome_height \in DomeHeights
        /\ min_panels = 0
        /\ max_panels \in { 0, MaxPanels }
        /\ min_panel_size = 1
        /\ max_panel_size = MaxPanelSize
        /\ model_density = 10
        /\ \E c1 \in IF radius <= MaxRadius THEN Cells(radius)
                      ELSE { << 0, 0 >> },
              v1 \in 0 .. MaxNoise, v2 \in 0 .. MaxNoise :
             height_map = BumpField(radius, c1, v1, v2)
        /\ \/ /\ environment_models = << >>
              /\ radius <= MaxRadius
              /\ TerrainRun \/ ParamRun \/ DomeRun
           \/ EntitySmoke
        /\ patch_map = PatchField(radius)
        /\ model_placement_noise = PlacementField(radius)
     \/ /\ InvalidRun
        /\ patch_map = PatchField(radius)
        /\ model_placement_noise = PlacementField(radius)
     \/ ZeroNoiseRun
  /\ Fresh

\* The runs with model definitions, in a specification of their own.
\* the bump cells: the origin and a cell at distance exactly radius - 5
EntityBumps == { << 0, 0 >>, << ModelRadius - 5, 0 >> }

\*   BumpWorld:  radius ModelRadius, a bump at or next to the origin, a low
\*               water table, no panel
\*   LandWorld:  radius ModelRadius, flat and all land, any density, no panel
\*   SmallWorld: a flat world too small to have an inner cell, with panels
BumpWorld ==
  /\ radius = ModelRadius
  /\ model_density = 10
  /\ water_threshold <= 1
  /\ max_panels = 0
  /\ \E c1 \in EntityBumps, v1 \in 0 .. MaxNoise, v2 \in 0 .. 1 :
       height_map = BumpField(radius, c1, v1, v2)

LandWorld ==
  /\ radius = ModelRadius
  /\ Flat(height_map)
  /\ water_threshold = 0
  /\ max_panels = 0

SmallWorld ==
  /\ radius = MaxRadius
  /\ model_density = 10
  /\ Flat(height_map)
  /\ water_threshold = 0
  /\ max_panels = MaxPanels

\*   PanelWorld: radius ModelRadius, land at the origin only, at most one
\*               panel, of size 1
PanelWorld ==
  /\ radius = ModelRadius
  /\ model_density = 10
  /\ height_map = BumpField(radius, << 0, 0 >>, 1, 0)
  /\ water_threshold = 0
  /\ max_panels = 1
  /\ max_panel_size = 1

InitEntities ==
  /\ radius \in { MaxRadius, ModelRadius }
  /\ min_height \in { 0, 1 }
  /\ max_height = MaxHeight
  /\ water_threshold \in 0 .. MaxWater
  /\ dome_height = Max(DomeHeights)
  /\ min_panels = 0
  /\ max_panels \in { 0, 1, MaxPanels }
  /\ min_panel_size = 1
  /\ max_panel_size \in { 1, MaxPanelSize }
  /\ environment_models = ModelList
  /\ model_density \in { 0, 10 }
  /\ \E c1 \in EntityBumps, v1 \in 0 .. MaxNoise, v2 \in 0 .. 1 :
       height_map = BumpField(radius, c1, v1, v2)
  /\ \/ min_height = 0 /\ max_panel_size = MaxPanelSize /\ BumpWorld
     \/ min_height = 0 /\ PanelWorld
     \/ min_height = 1 /\ max_panel_size = MaxPanelSize /\
          (LandWorld \/ SmallWorld)
  /\ patch_map = PatchField(radius)
  /\ model_placement_noise = PlacementField(radius)
  /\ Fresh

\* line 176: if environment_models
HasModels(models) == models # << >>

\* the order of the specification: DomeBuilder, then EntityScatterer
StageAfterDomeFirst(stage, models) ==
  IF stage = "voxel" THEN "wall"
  ELSE IF stage = "apex" THEN IF HasModels(models) THEN "models" ELSE "save"
  ELSE "save"

\* the stage that follows the Voxelizer (line 176), the EntityScatterer
\* (line 246) and the apex platform (line 288)
StageAfter(stage, models) ==
  IF stage = "voxel" THEN IF HasModels(models) THEN "models" ELSE "wall"
  ELSE IF stage = "scatter" THEN "wall"
  ELSE "save"

\* a normalization that adds a random offset to every height
NormalizeJittered ==
  /\ pc = "normalize"
  /\ \E j \in { 0, 1 } :
       normalized_height_map' =
         [c \in DOMAIN height_map |->
            Normalized(height_map, min_height, max_height)[c] + j]
  /\ draws' = Append(draws, "jitter")
  /\ smoothed_height_map' = normalized_height_map'
  /\ pass_start' = << normalized_height_map' >>
  /\ idx' = NextIdx(radius, 0, DOMAIN height_map)
  /\ pc' = "smooth"
  /\ UNCHANGED << params, fields, placed, pass, blocks, entities, writes,
                  panel_count, panels_done, panel, saved, err, err_at, tool >>

\* lines 86-106: normalize, then copy the map for smoothing; min() of line
\* 103 raises on a map without cells
Normalize ==
  /\ pc = "normalize"
  /\ normalized_height_map' = Normalized(height_map, min_height, max_height)
  /\ IF DOMAIN height_map = {}
     THEN /\ pc' = "error"
          /\ err' = "ValueError"
          /\ err_at' = 103
          /\ UNCHANGED << smoothed_height_map, pass_start, idx >>
     ELSE /\ smoothed_height_map' = normalized_height_map'
          /\ pass_start' = << normalized_height_map' >>
          /\ idx' = NextIdx(radius, 0, DOMAIN height_map)
          /\ pc' = "smooth"
          /\ UNCHANGED << err, err_at >>
  /\ UNCHANGED << params, fields, draws, placed,
                  pass, blocks, entities, writes, panel_count,
                  panels_done, panel, saved, tool >>

\* --------------------------------------------------------- HeightSmoother
\* the 4-connected neighbours of c that are keys of the map m
Neighbours(c, m) ==
  { n \in { << c[1] - 1, c[2] >>, << c[1] + 1, c[2] >>,
            << c[1], c[2] - 1 >>, << c[1], c[2] + 1 >> } : n \in DOMAIN m }

\* lines 111-124: the value cell c receives, read from the map m
NewHeight(c, m, lo) ==
  LET N == { m[n] : n \in Neighbours(c, m) }
  IN IF N = {} THEN m[c]
     ELSE Max2(lo, Max2(Min(N) - 1, Min2(Max(N) + 1, m[c])))

\* a cell update that lands one step above the clamped value
SmoothCellOvershoot ==
  /\ pc = "smooth"
  /\ idx < SquareEnd(radius)
  /\ LET c == SquareCell(radius, idx)
         m == [smoothed_height_map EXCEPT
                 ![c] = NewHeight(c, smoothed_height_map, min_height) + 1]
         nxt == NextIdx(radius, idx + 1, DOMAIN smoothed_height_map)
     IN /\ smoothed_height_map' = m
        /\ IF nxt < SquareEnd(radius)
           THEN /\ idx' = nxt
                /\ UNCHANGED << pass, pass_start, pc >>
           ELSE /\ idx' = NextIdx(radius, 0, DOMAIN smoothed_height_map)
                /\ pass' = pass + 1
                /\ IF pass + 1 < SmoothPasses
                   THEN /\ pass_start' = Append(pass_start, m)
                        /\ pc' = "smooth"
                   ELSE /\ pass_start' = pass_start
                        /\ pc' = "voxel"
  /\ UNCHANGED << params, fields, draws, placed,
                  normalized_height_map, blocks, entities,
                  writes, panel_count, panels_done, panel, saved, err, err_at, tool >>

\* one iteration of the loop body of lines 108-124 on the next cell of the map;
\* the step that updates the last cell of a pass also closes the pass
SmoothCell ==
  /\ pc = "smooth"
  /\ idx < SquareEnd(radius)
  /\ LET c == SquareCell(radius, idx)
         m == [smoothed_height_map EXCEPT
                 ![c] = NewHeight(c, smoothed_height_map, min_height)]
         nxt == NextIdx(radius, idx + 1, DOMAIN smoothed_height_map)
     IN /\ smoothed_height_map' = m
        /\ IF nxt < SquareEnd(radius)
           THEN /\ idx' = nxt
                /\ UNCHANGED << pass, pass_start, pc >>
           ELSE /\ idx' = NextIdx(radius, 0, DOMAIN smoothed_height_map)
                /\ pass' = pass + 1
                /\ IF pass + 1 < SmoothPasses
                   THEN /\ pass_start' = Append(pass_start, m)
                        /\ pc' = "smooth"
                   ELSE /\ pass_start' = pass_start
                        /\ pc' = "voxel"
  /\ UNCHANGED << params, fields, draws, placed,
                  normalized_height_map, blocks, entities,
                  writes, panel_count, panels_done, panel, saved, err, err_at, tool >>

\* -------------------------------------------------------------- Voxelizer
\* a cut-off that includes -0.1
TopBlockInclusive(patch_value) ==
  IF patch_value >= -1 THEN VOIDGRASS ELSE VOIDSOIL

\* line 159: 2 if patch_value > -0.1 else 1 (patch values in tenths)
TopBlock(patch_value) == IF patch_value > -1 THEN VOIDGRASS ELSE VOIDSOIL

\* a water fill that stops one block below the water threshold
ColumnWritesShortWater(x, z, h, patch_value, wt) ==
  LET soil == { Key(x, y, z) : y \in 0 .. h - 1 }
      top == { Key(x, h, z) }
      water == IF h < wt THEN { Key(x, y, z) : y \in h + 1 .. wt - 1 } ELSE {}
  IN [k \in soil \cup top \cup water |->
        IF k \in water THEN WATER
        ELSE IF k \in top THEN TopBlock(patch_value) ELSE VOIDSOIL]

\* lines 154-165: the writes of one column of terrain height h
ColumnWrites(x, z, h, patch_value, wt) ==
  LET soil == { Key(x, y, z) : y \in 0 .. h - 1 }
      top == { Key(x, h, z) }
      water == IF h < wt THEN { Key(x, y, z) : y \in h + 1 .. wt } ELSE {}
  IN [k \in soil \cup top \cup water |->
        IF k \in water THEN WATER
        ELSE IF k \in top THEN TopBlock(patch_value) ELSE VOIDSOIL]

\* one iteration of the loop of line 151, over the map in insertion order
VoxelColumn ==
  /\ pc = "voxel"
  /\ idx < SquareEnd(radius)
  /\ LET c == SquareCell(radius, idx)
         w == ColumnWrites(c[1], c[2], smoothed_height_map[c], patch_map[c],
                           water_threshold)
         nxt == NextIdx(radius, idx + 1, DOMAIN smoothed_height_map)
     IN /\ writes' = w
        /\ blocks' = Write(blocks, w)
        /\ idx' = nxt
        /\ pc' = IF nxt < SquareEnd(radius) THEN "voxel"
                 ELSE StageAfter("voxel", environment_models)
  /\ UNCHANGED << params, fields, draws, placed,
                  normalized_height_map, smoothed_height_map,
                  pass, pass_start, entities, panel_count, panels_done, panel,
                  saved, err, err_at, tool >>

\* -------------------------------------------------------- EntityScatterer
\* an eligibility test that admits a height equal to the water threshold
EligibleAtThreshold(h, wt, r, x, z) ==
  h >= wt /\ r - 5 > 0 /\ x * x + z * z < (r - 5) * (r - 5)

\* line 194: terrain_height > water_threshold and
\*           math.sqrt(x**2 + z**2) < radius - 5
Eligible(h, wt, r, x, z) ==
  h > wt /\ r - 5 > 0 /\ x * x + z * z < (r - 5) * (r - 5)

\* line 196: model_placement_noise.get((x, z), -1), in tenths
PlacementNoise(m, x, z) ==
  IF << x, z >> \in DOMAIN m THEN m[<< x, z >>] ELSE -10

\* lines 198-200: random.random() < model_density * ((noise_val + 1) / 2),
\* for the draw rnd / 32, the density d / 10 and the noise value nv / 10
Places(rnd, d, nv) == rnd * 200 < 32 * d * (nv + 10)

\* lines 205-206: the bounds of a definition, with their defaults
MinScale(info) ==
  IF "min_scale" \in DOMAIN info THEN info.min_scale ELSE (9 * Unit) \div 10
MaxScale(info) ==
  IF "max_scale" \in DOMAIN info THEN info.max_scale ELSE (11 * Unit) \div 10

\* line 207: random.uniform(a, b) = a + (b - a) * random(), for the draw u / 32
Uniform(a, b, u) == a + ((b - a) * u) \div 32

\* a vertical placement that forgets the block the model stands on
PlacementYNoStep(h, scale) == h * Unit + scale \div 2

\* line 213: float(terrain_height + 1) + scale / 2.0
PlacementY(h, scale) == (h + 1) * Unit + scale \div 2

\* lines 216-217: float(x) + 0.5
PlacementXZ(x) == x * Unit + Unit \div 2

\* the sine and cosine, in fifths, of the half-angles 0 .. 5 whose point on the
\* unit circle is rational: 0, atan(3/4), atan(4/3), pi/2, pi - atan(4/3),
\* pi - atan(3/4)
SinHalf(a) == << 0, 3, 4, 5, 4, 3 >>[a + 1]
CosHalf(a) == << 5, 4, 3, 0, -3, -4 >>[a + 1]

\* a rotation about the x axis
RotationAboutX(a) == [x |-> SinHalf(a), y |-> 0, z |-> 0, w |-> CosHalf(a)]

\* lines 223-225: rotation = {"x": 0, "y": quat_y, "z": 0, "w": quat_w}
Rotation(a) == [x |-> 0, y |-> SinHalf(a), z |-> 0, w |-> CosHalf(a)]

\* f"{v:.4f}": v, in units of 1/Unit, rounded to a multiple of 1/10000 (a tie
\* goes to the even digit), counted in units of 1/10000
Fmt4(v) ==
  LET step == Unit \div 10000
      q == v \div step
      rest == v % step
  IN IF 2 * rest < step THEN q
     ELSE IF 2 * rest > step THEN q + 1
     ELSE IF q % 2 = 0 THEN q ELSE q + 1

\* a key that leaves out the column
EntityKeyByHeight(px, py, pz) == << 5000, Fmt4(py), 5000 >>

\* line 228: coord_key
EntityKey(px, py, pz) == << Fmt4(px), Fmt4(py), Fmt4(pz) >>

\* line 233: model_info.get('name', uri.split('/')[-1].split('.')[0])
ModelName(info) ==
  IF "name" \in DOMAIN info THEN info.name ELSE info.uri[Len(info.uri)][1]

\* lines 231-241: the entity dictionary
EntityRecord(info, scale, a) ==
  [modelUri |-> info.uri, name |-> ModelName(info), modelScale |-> scale,
   opacity |-> 99, modelLoopedAnimations |-> << "idle" >>,
   rigidBodyOptions |-> [type |-> "kinematic_velocity",
                         rotation |-> Rotation(a)]]

\* the next position >= i of the loop of line 192 whose cell passes line 194
NextEligible(i) ==
  LET J == { j \in i .. SquareEnd(radius) - 1 :
               /\ SquareCell(radius, j) \in DOMAIN smoothed_height_map
               /\ Eligible(smoothed_height_map[SquareCell(radius, j)],
                           water_threshold, radius,
                           SquareCell(radius, j)[1], SquareCell(radius, j)[2]) }
  IN IF J = {} THEN SquareEnd(radius) ELSE Min(J)

\* lines 176-191: the loop of line 192 is positioned on its first iteration
\* that passes line 194
ModelsBegin ==
  /\ pc = "models"
  /\ idx' = NextEligible(0)
  /\ pc' = IF idx' < SquareEnd(radius) THEN "scatter"
           ELSE StageAfter("scatter", environment_models)
  /\ writes' = Empty
  /\ UNCHANGED << params, fields, draws, placed, normalized_height_map,
                  smoothed_height_map, pass, pass_start, blocks, entities,
                  panel_count, panels_done, panel, saved, err, err_at, tool >>

\* lines 195-242: one iteration of the loop of line 192 that passes line 194,
\* followed by the iterations that do not
ScatterCell ==
  /\ pc = "scatter"
  /\ idx < SquareEnd(radius)
  /\ LET c == SquareCell(radius, idx)
         h == smoothed_height_map[c]
         nv == PlacementNoise(model_placement_noise, c[1], c[2])
         nxt == NextEligible(idx + 1)
     IN \E rnd \in UnitDraws :
          IF Places(rnd, model_density, nv)
          THEN \E m \in 1 .. Len(environment_models),
                  u \in ScaleDraws, a \in YawDraws :
                    LET info == environment_models[m]
                        scale == Uniform(MinScale(info), MaxScale(info), u)
                        key == EntityKey(PlacementXZ(c[1]),
                                         PlacementY(h, scale),
                                         PlacementXZ(c[2]))
                    IN /\ draws' = draws \o << "place", "model", "scale",
                                               "yaw" >>
                       /\ IF "uri" \in DOMAIN info
                          THEN /\ entities' =
                                    Write(entities,
                                          [k \in { key } |->
                                             EntityRecord(info, scale, a)])
                               /\ placed' = [cell |-> c, model |-> m,
                                             scale |-> scale, yaw |-> a,
                                             key |-> key, valid |-> TRUE]
                               /\ idx' = nxt
                               /\ pc' = IF nxt < SquareEnd(radius)
                                        THEN "scatter"
                                        ELSE StageAfter("scatter",
                                                        environment_models)
                               /\ UNCHANGED << err, err_at >>
                          ELSE /\ pc' = "error"
                               /\ err' = "KeyError"
                               /\ err_at' = 232
                               /\ UNCHANGED << entities, placed, idx >>
          ELSE /\ draws' = Append(draws, "place")
               /\ idx' = nxt
               /\ pc' = IF nxt < SquareEnd(radius) THEN "scatter"
                        ELSE StageAfter("scatter", environment_models)
               /\ UNCHANGED << entities, placed, err, err_at >>
  /\ writes' = Empty
  /\ UNCHANGED << params, fields, normalized_height_map, smoothed_height_map,
                  pass, pass_start, blocks, panel_count, panels_done, panel,
                  saved, tool >>

\* ------------------------------------------------------------ DomeBuilder
\* line 254: math.sqrt(x**2 + z**2) > radius - 2
NearEdge(r, x, z) == r - 2 < 0 \/ x * x + z * z > (r - 2) * (r - 2)

\* line 255: smoothed_height_map.get((x, z), 0)
TerrainHeight(m, x, z) == IF << x, z >> \in DOMAIN m THEN m[<< x, z >>] ELSE 0

\* lines 251-257: every write of the base wall
WallWrites(r, m) ==
  LET cols == { c \in (-r .. r) \X (-r .. r) : NearEdge(r, c[1], c[2]) }
      keys == UNION { { Key(c[1], y, c[2]) :
                          y \in TerrainHeight(m, c[1], c[2]) + 1 ..
                                TerrainHeight(m, c[1], c[2]) + base_wall_height }
                      : c \in cols }
  IN [k \in keys |-> SHADOWROCK]

Wall ==
  /\ pc = "wall"
  /\ writes' = WallWrites(radius, smoothed_height_map)
  /\ blocks' = Write(blocks, writes')
  /\ pc' = "panel_count"
  /\ UNCHANGED << params, fields, draws, placed,
                  normalized_height_map, smoothed_height_map,
                  pass, pass_start, idx, entities, panel_count, panels_done,
                  panel, saved, err, err_at, tool >>

\* line 260: panel_count = random.randint(min_panels, max_panels), which
\* raises on an empty range
DrawPanelCount ==
  /\ pc = "panel_count"
  /\ IF min_panels > max_panels
     THEN /\ pc' = "error"
          /\ err' = "ValueError"
          /\ err_at' = 260
          /\ UNCHANGED << panel_count, draws >>
     ELSE /\ \E n \in min_panels .. max_panels :
               /\ panel_count' = n
               /\ pc' = IF n <= 0 THEN "apex" ELSE "panels"
          /\ draws' = Append(draws, "panel_count")
          /\ UNCHANGED << err, err_at >>
  /\ panels_done' = 0
  /\ writes' = Empty
  /\ UNCHANGED << params, fields, placed,
                  normalized_height_map, smoothed_height_map,
                  pass, pass_start, idx, blocks, entities, panel, saved,
                  tool >>

\* the largest k >= 0 with k^2 * d <= a^2 * n: floor(a * sqrt(n / d)), a >= 0
FloorSqrt(a, n, d) ==
  CHOOSE k \in 0 .. a : k * k * d <= a * a * n /\ (k + 1) * (k + 1) * d > a * a * n

\* a projection that ignores the distance from the origin
DomeYFlat(dh, num, den, mh) == dh + mh

\* int(dome_height * math.sqrt(1 - num/den)) + max_height, with 0 <= num <= den
DomeY(dh, num, den, mh) ==
  (IF dh >= 0 THEN FloorSqrt(dh, den - num, den)
   ELSE -FloorSqrt(-dh, den - num, den)) + mh

\* a threshold that leaves out skip_rows
SkipThresholdNoSkipRows(mh) == mh + base_wall_height

\* line 278: the lowest y a panel may write
SkipThreshold(mh) == mh + base_wall_height + skip_rows

\* cos and sin of the quarter turns 0, pi/2, pi, 3pi/2, after int() truncation
CosQ(q) == IF q = 0 THEN 1 ELSE IF q = 2 THEN -1 ELSE 0
SinQ(q) == IF q = 1 THEN 1 ELSE IF q = 3 THEN -1 ELSE 0

\* a footprint that is not cut to the world disk
PanelColumnsUncut(r, cx, cz, pr) ==
  { d \in (-pr .. pr) \X (-pr .. pr) : d[1] * d[1] + d[2] * d[2] <= pr * pr }

\* lines 270-275: the offsets (dx,dz) of the columns a panel evaluates the
\* dome projection at
PanelColumns(r, cx, cz, pr) ==
  { d \in (-pr .. pr) \X (-pr .. pr) :
      /\ InDisk(r, cx + d[1], cz + d[2])
      /\ d[1] * d[1] + d[2] * d[2] <= pr * pr }

\* math.sqrt(1 - num/den) raises: the radicand is negative
DomainError(num, den) == num > den

\* lines 270-279: every write of one panel
PanelWrites(r, dh, mh, cx, cz, pr) ==
  LET cols == PanelColumns(r, cx, cz, pr)
      ColY(x, z) == DomeY(dh, x * x + z * z, r * r, mh)
      keys == UNION { { Key(cx + d[1], y, cz + d[2]) :
                          y \in { yy \in ColY(cx + d[1], cz + d[2]) - 2 ..
                                         ColY(cx + d[1], cz + d[2]) :
                                    yy >= SkipThreshold(mh) } }
                      : d \in cols }
  IN [k \in keys |-> SHADOWROCK]

\* one iteration of the loop of line 261; dist = radius * t / 10.  The
\* iteration raises at line 266 when radius is 0 or the radicand at the
\* centre is negative, at line 268 when the range of panel sizes is empty,
\* and at line 276 when the radicand at a column is negative.
Panel ==
  /\ pc = "panels"
  /\ panels_done < panel_count
  /\ \E q \in Quarters, t \in DistTenths :
       LET cx == CosQ(q) * ((radius * t) \div 10)
           cz == SinQ(q) * ((radius * t) \div 10)
           Raise(e, line, d) ==
             /\ pc' = "error"
             /\ err' = e
             /\ err_at' = line
             /\ draws' = draws \o d
             /\ UNCHANGED << blocks, writes, panel, panels_done >>
       IN IF radius = 0
          THEN Raise("ZeroDivisionError", 266, << "panel_angle", "panel_dist" >>)
          ELSE IF DomainError(t * t, 100)
          THEN Raise("ValueError", 266, << "panel_angle", "panel_dist" >>)
          ELSE IF min_panel_size > max_panel_size
          THEN Raise("ValueError", 268, << "panel_angle", "panel_dist" >>)
          ELSE \E pr \in min_panel_size .. max_panel_size :
            IF \E d \in PanelColumns(radius, cx, cz, pr) :
                 DomainError((cx + d[1]) * (cx + d[1]) +
                             (cz + d[2]) * (cz + d[2]), radius * radius)
            THEN Raise("ValueError", 276,
                       << "panel_angle", "panel_dist", "panel_radius" >>)
            ELSE
              LET w == PanelWrites(radius, dome_height, max_height, cx, cz, pr)
              IN /\ panel' = [center_x |-> cx, center_z |-> cz, dist10 |-> t,
                              panel_radius |-> pr,
                              dome_y_center |->
                                DomeY(dome_height, t * t, 100, max_height),
                              valid |-> TRUE]
                 /\ writes' = w
                 /\ blocks' = Write(blocks, w)
                 /\ draws' = draws \o << "panel_angle", "panel_dist",
                                          "panel_radius" >>
                 /\ panels_done' = panels_done + 1
                 /\ pc' = IF panels_done + 1 = panel_count THEN "apex"
                          ELSE "panels"
                 /\ UNCHANGED << err, err_at >>
  /\ UNCHANGED << params, fields, placed,
                  normalized_height_map, smoothed_height_map,
                  pass, pass_start, idx, entities, panel_count, saved, tool >>

\* a platform that leaves out its rim
ApexWritesStrict(dh, mh) ==
  LET cols == { c \in (-shadowrock_radius .. shadowrock_radius) \X
                      (-shadowrock_radius .. shadowrock_radius) :
                  c[1] * c[1] + c[2] * c[2] <
                    shadowrock_radius * shadowrock_radius }
  IN [k \in { Key(c[1], dh + mh, c[2]) : c \in cols } |-> SHADOWROCK]

\* lines 283-286: every write of the apex platform
ApexWrites(dh, mh) ==
  LET cols == { c \in (-shadowrock_radius .. shadowrock_radius) \X
                      (-shadowrock_radius .. shadowrock_radius) :
                  c[1] * c[1] + c[2] * c[2] <=
                    shadowrock_radius * shadowrock_radius }
  IN [k \in { Key(c[1], dh + mh, c[2]) : c \in cols } |-> SHADOWROCK]

Apex ==
  /\ pc = "apex"
  /\ writes' = ApexWrites(dome_height, max_height)
  /\ blocks' = Write(blocks, writes')
  /\ pc' = StageAfter("apex", environment_models)
  /\ UNCHANGED << params, fields, draws, placed,
                  normalized_height_map, smoothed_height_map,
                  pass, pass_start, idx, entities, panel_count, panels_done,
                  panel, saved, err, err_at, tool >>

\* ----------------------------------------------------------- MapAssembler
\* a dump that leaves out the entities
SaveWithoutEntities ==
  /\ pc = "save"
  /\ saved' = [blockTypes |-> block_types, blocks |-> blocks,
               entities |-> Empty]
  /\ writes' = Empty
  /\ pc' = "done"
  /\ UNCHANGED << params, fields, draws, placed,
                  normalized_height_map, smoothed_height_map,
                  pass, pass_start, idx, blocks, entities, panel_count,
                  panels_done, panel, err, err_at, tool >>

\* lines 289-299
Save ==
  /\ pc = "save"
  /\ saved' = [blockTypes |-> block_types, blocks |-> blocks,
               entities |-> entities]
  /\ writes' = Empty
  /\ pc' = "done"
  /\ UNCHANGED << params, fields, draws, placed,
                  normalized_height_map, smoothed_height_map,
                  pass, pass_start, idx, blocks, entities, panel_count,
                  panels_done, panel, err, err_at, tool >>

Next ==
  \/ Normalize
  \/ SmoothCell
  \/ VoxelColumn
  \/ ModelsBegin
  \/ ScatterCell
  \/ Wall
  \/ DrawPanelCount
  \/ Panel
  \/ Apex
  \/ Save

Spec == Init /\ [][Next]_vars

SpecEntities == InitEntities /\ [][Next]_vars

\* ================================================ find_ground_blocks.py
\* The sampling tool reads the block map of an artifact file and nothing
\* else.  Its runs start from any small block map, or from the artifact of a
\* flat world; the generator's variables are those of a finished run and do
\* not change.  pc: done -> filter -> sample -> sampled | no_ground.

\* the configured sample sizes: below, at and above the number of ground
\* columns of the maps below, and the value of the source
SampleSizes == { 1, 2, SAMPLE_SIZE }
\* the radius of the generated world the tool is run on: the smallest whose
\* disk has columns between the apex platform and the boundary wall
GroundRadius == 8

\* lines 151-286: the BlockGrid of a flat world of height h without panels
ArtifactBlocks(r, h, wt, dh, mh) ==
  LET patch == PatchField(r)
      Col(c) == ColumnWrites(c[1], c[2], h, patch[c], wt)
      vox == [k \in UNION { DOMAIN Col(c) : c \in Cells(r) } |->
                Col(<< k[1], k[3] >>)[k]]
  IN Write(Write(vox, WallWrites(r, [c \in Cells(r) |-> h])),
           ApexWrites(dh, mh))

\* block maps of three columns: (0,0) with any block or none at each y in
\* 0 .. MaxBlockY, (1,0) likewise at y in 0 .. 1, and (-1,0) with at most a
\* soil block at y = -1
SmallBlockMaps ==
  LET ids == { 0, VOIDSOIL, VOIDGRASS, SHADOWROCK, WATER }
      keys == { Key(0, y, 0) : y \in 0 .. MaxBlockY } \cup
              { Key(1, y, 0) : y \in 0 .. 1 } \cup { Key(-1, -1, 0) }
      fill == { f \in [keys -> ids] : f[Key(-1, -1, 0)] \in { 0, VOIDSOIL } }
  IN { [k \in { j \in keys : f[j] # 0 } |-> f[k]] : f \in fill }

\* the generator's variables after a run of the smallest world; the tool
\* reads none of them
FinishedRun ==
  /\ radius = 0
  /\ min_height = 0
  /\ max_height = 0
  /\ water_threshold = 0
  /\ dome_height = 0
  /\ min_panels = 0
  /\ max_panels = 0
  /\ min_panel_size = 1
  /\ max_panel_size = 1
  /\ environment_models = << >>
  /\ model_density = 0
  /\ height_map = [c \in Cells(0) |-> 0]
  /\ patch_map = PatchField(0)
  /\ model_placement_noise = PlacementField(0)
  /\ normalized_height_map = height_map
  /\ smoothed_height_map = height_map
  /\ pass = SmoothPasses
  /\ pass_start = << height_map, height_map >>
  /\ idx = 0
  /\ entities = Empty
  /\ writes = Empty
  /\ panel_count = 0
  /\ panels_done = 0
  /\ panel = NoPanel
  /\ draws = << "panel_count" >>
  /\ placed = NoEntity
  /\ pc = "done"
  /\ err = "none"
  /\ err_at = 0

\* the integers of S in lo .. hi, in ascending order
RECURSIVE AscendingIn(_, _, _)
AscendingIn(S, lo, hi) ==
  IF lo > hi THEN << >>
  ELSE IF lo = hi THEN IF lo \in S THEN << lo >> ELSE << >>
  ELSE AscendingIn(S, lo, (lo + hi) \div 2) \o
         AscendingIn(S, ((lo + hi) \div 2) + 1, hi)

\* the integers of S in ascending order
Ascending(S) == IF S = {} THEN << >> ELSE AscendingIn(S, Min(S), Max(S))

\* the keys of W in the order a loop over the square of radius r meets them
\* at its positions lo .. hi: x outer, z inner (lines 151, 251-252, 282-283),
\* y ascending within a column (lines 154-165, 256)
RECURSIVE ScanKeys(_, _, _, _)
ScanKeys(r, W, lo, hi) ==
  IF lo > hi THEN << >>
  ELSE IF lo = hi
  THEN LET c == SquareCell(r, lo)
           ys == Ascending({ k[2] : k \in { q \in W : q[1] = c[1] /\
                                                      q[3] = c[2] } })
       IN [i \in 1 .. Len(ys) |-> Key(c[1], ys[i], c[2])]
  ELSE ScanKeys(r, W, lo, (lo + hi) \div 2) \o
         ScanKeys(r, W, ((lo + hi) \div 2) + 1, hi)

\* lines 151-286: the keys of ArtifactBlocks in the order the generator
\* inserted them, which is the order json.dump writes and json.load reads: the
\* terrain and water of every column, then the wall blocks that are new keys,
\* then the platform blocks that are new keys
ArtifactOrder(r, h, wt, dh, mh) ==
  LET patch == PatchField(r)
      vox == UNION { DOMAIN ColumnWrites(c[1], c[2], h, patch[c], wt) :
                       c \in Cells(r) }
      wall == DOMAIN WallWrites(r, [c \in Cells(r) |-> h])
      apex == DOMAIN ApexWrites(dh, mh)
  IN ScanKeys(r, vox, 0, SquareEnd(r) - 1) \o
       ScanKeys(r, wall \ vox, 0, SquareEnd(r) - 1) \o
       ScanKeys(shadowrock_radius, apex \ (vox \cup wall), 0,
                SquareEnd(shadowrock_radius) - 1)

\* the keys of the small block map B sorted by x, then z, then y
SortKeys(B) == ScanKeys(1, DOMAIN B, 0, SquareEnd(1) - 1)

\* the sequence s backwards
Reverse(s) == [i \in 1 .. Len(s) |-> s[Len(s) + 1 - i]]

\* the orders in which the keys of the small block map B stand in its file:
\* sorted, sorted backwards, and sorted with the first key moved to the end
FileOrders(B) ==
  LET s == SortKeys(B)
  IN { s, Reverse(s),
       [i \in 1 .. Len(s) |-> s[(i % Len(s)) + 1]] }

InitGround ==
  /\ FinishedRun
  /\ \/ /\ blocks \in SmallBlockMaps
        /\ block_order \in FileOrders(blocks)
     \/ \E h \in 0 .. 1, wt \in 0 .. 1 :
          /\ blocks = ArtifactBlocks(GroundRadius, h, wt, Max(DomeHeights),
                                     MaxHeight)
          /\ block_order = ArtifactOrder(GroundRadius, h, wt,
                                         Max(DomeHeights), MaxHeight)
     \/ /\ blocks = ArtifactBlocks(1, 0, 0, 0, 0)
        /\ block_order = ArtifactOrder(1, 0, 0, 0, 0)
  /\ saved = [blockTypes |-> block_types, blocks |-> blocks,
              entities |-> Empty]
  /\ sample_size \in SampleSizes
  /\ top_blocks = << >>
  /\ ground_coords = << >>
  /\ sampled_coords = << >>

\* the columns of the block map B
Columns(B) == { << k[1], k[3] >> : k \in DOMAIN B }

\* the lowest y of a block in column c of B
LowestY(B, c) == Min({ k[2] : k \in { j \in DOMAIN B : j[1] = c[1] /\ j[3] = c[2] } })

\* lines 38-49: the y the scan keeps for column c: an entry is replaced only
\* by a block of the column with a greater y, so the greatest of the column
TopY(B, c) == Max({ k[2] : k \in { j \in DOMAIN B : j[1] = c[1] /\ j[3] = c[2] } })

\* lines 38-49: the entries that the items lo .. hi of the file add to the
\* dictionary top_blocks, in the order they are added.  An item adds its
\* column if no earlier item of the file has it; the entry of a column ends as
\* the block of TopY
RECURSIVE TopEntries(_, _, _, _)
TopEntries(order, B, lo, hi) ==
  IF lo > hi THEN << >>
  ELSE IF lo = hi
  THEN IF \A j \in 1 .. lo - 1 :
            order[j][1] # order[lo][1] \/ order[j][3] # order[lo][3]
       THEN << [x |-> order[lo][1], z |-> order[lo][3],
                y |-> TopY(B, << order[lo][1], order[lo][3] >>),
                block_id |->
                  B[Key(order[lo][1],
                        TopY(B, << order[lo][1], order[lo][3] >>),
                        order[lo][3])]] >>
       ELSE << >>
  ELSE TopEntries(order, B, lo, (lo + hi) \div 2) \o
         TopEntries(order, B, ((lo + hi) \div 2) + 1, hi)

\* lines 35-52: one scan of the block map, in the order of the file
TopBlocks ==
  /\ pc = "done"
  /\ saved # << >>
  /\ top_blocks' = TopEntries(block_order, saved.blocks, 1, Len(block_order))
  /\ pc' = "filter"
  /\ UNCHANGED << params, fields, normalized_height_map, smoothed_height_map,
                  pass, pass_start, idx, blocks, entities, writes,
                  panel_count, panels_done, panel, draws, placed, saved, err,
                  err_at, block_order, ground_coords, sampled_coords,
                  sample_size >>

\* lines 12-15: TEXTURE_MAPPING
TEXTURE_MAPPING(id) ==
  IF id = 1 THEN "blocks/voidsoil-electrified"
  ELSE "blocks/voidgrass-electrified"

\* lines 55-77: the entries of top_blocks whose block is a ground block, in
\* the order of top_blocks
GroundCoords ==
  /\ pc = "filter"
  /\ LET IsGround(t) == t.block_id \in GROUND_BLOCK_IDS
         ground == SelectSeq(top_blocks, IsGround)
     IN ground_coords' =
          [i \in 1 .. Len(ground) |->
             [x |-> ground[i].x, y |-> ground[i].y, z |-> ground[i].z,
              textureUri |-> TEXTURE_MAPPING(ground[i].block_id)]]
  /\ pc' = "sample"
  /\ UNCHANGED << params, fields, normalized_height_map, smoothed_height_map,
                  pass, pass_start, idx, blocks, entities, writes,
                  panel_count, panels_done, panel, draws, placed, saved, err,
                  err_at, block_order, top_blocks, sampled_coords,
                  sample_size >>

\* the positions a sample of a long list starts from
SampleStarts(n) == { 1, 2, n } \cap (1 .. n)

\* line 88: the results of random.sample(population, k) for a population of
\* n entries, as sequences of positions: any k distinct positions in any
\* order.  Of a list of at most MaxFullSample entries every sample is drawn;
\* of a longer list, the samples that take every step-th position, cyclically,
\* from a position of SampleStarts, forwards, backwards and by threes.
SamplePicks(n, k) ==
  IF n <= MaxFullSample
  THEN { p \in [1 .. k -> 1 .. n] :
           \A i, j \in 1 .. k : p[i] = p[j] => i = j }
  ELSE { p \in { [i \in 1 .. k |-> ((start - 1 + step * (i - 1)) % n) + 1] :
                   start \in SampleStarts(n), step \in { 1, 3, n - 1 } } :
           \A i, j \in 1 .. k : p[i] = p[j] => i = j }

\* lines 79-100: return without output if no ground was found, else dump a
\* sample of min(SAMPLE_SIZE, len(ground_coords)) entries
Sample ==
  /\ pc = "sample"
  /\ IF ground_coords = << >>
     THEN /\ pc' = "no_ground"
          /\ UNCHANGED sampled_coords
     ELSE LET n == Len(ground_coords)
              actual_sample_size == Min2(sample_size, n)
          IN \E picks \in SamplePicks(n, actual_sample_size) :
               /\ sampled_coords' =
                    [i \in 1 .. actual_sample_size |->
                       ground_coords[picks[i]]]
               /\ pc' = "sampled"
  /\ UNCHANGED << params, fields, normalized_height_map, smoothed_height_map,
                  pass, pass_start, idx, blocks, entities, writes,
                  panel_count, panels_done, panel, draws, placed, saved, err,
                  err_at, block_order, top_blocks, ground_coords,
                  sample_size >>

NextGround ==
  \/ TopBlocks
  \/ GroundCoords
  \/ Sample

SpecGround == InitGround /\ [][NextGround]_vars

\* ======================================================= properties
Abs(a) == IF a < 0 THEN -a ELSE a
Adjacent(a, b) == Abs(a[1] - b[1]) + Abs(a[2] - b[2]) = 1
Clamp(v, lo, hi) == IF v < lo THEN lo ELSE IF v > hi THEN hi ELSE v
Disk(r) == { c \in (-r .. r) \X (-r .. r) : c[1] * c[1] + c[2] * c[2] <= r * r }

\* C1: after normalization the height map has exactly one entry per valid
\* Cell, and every height h satisfies min_height <= h <= max_height.
C1_NormalizedInRange ==
  pc # "normalize" =>
    /\ DOMAIN normalized_height_map = Disk(radius)
    /\ \A c \in DOMAIN normalized_height_map :
         normalized_height_map[c] \in min_height .. max_height

\* a normalized map that uses the bottom, the top and a value strictly between
C1_Witness ==
  /\ pc = "smooth"
  /\ \E a, b, c \in DOMAIN normalized_height_map :
       /\ normalized_height_map[a] = min_height
       /\ normalized_height_map[b] = max_height
       /\ normalized_height_map[c] > min_height
       /\ normalized_height_map[c] < max_height

\* the in-map cells 4-connected to c
Around(c, dom) ==
  { << c[1] - 1, c[2] >>, << c[1] + 1, c[2] >>,
    << c[1], c[2] - 1 >>, << c[1], c[2] + 1 >> } \cap dom

\* the value a cell holding own receives when its neighbours hold the values N
ExpectedCell(own, N) ==
  IF N = {} THEN own
  ELSE Max2(min_height, Clamp(own, Min(N) - 1, Max(N) + 1))

\* the scan order of the smoothing loops: x outer, z inner
Before(n, c) == n[1] < c[1] \/ (n[1] = c[1] /\ n[2] < c[2])

\* result is what a pass computes from start when every cell reads start
SnapshotPass(start, result) ==
  /\ DOMAIN result = DOMAIN start
  /\ \A c \in DOMAIN start :
       result[c] = ExpectedCell(start[c],
                     { start[n] : n \in Around(c, DOMAIN start) })

\* result is what a pass computes from start when every cell reads the map as
\* the scan has left it: new values before it in the scan, old values after
InPlacePass(start, result) ==
  /\ DOMAIN result = DOMAIN start
  /\ \A c \in DOMAIN start :
       result[c] = ExpectedCell(start[c],
                     { IF Before(n, c) THEN result[n] ELSE start[n] :
                         n \in Around(c, DOMAIN start) })

\* smoothing pass number pass has just been completed
PassJustDone ==
  /\ pass >= 1
  /\ pc \in { "smooth", "voxel" }
  /\ idx = Min({ i \in 0 .. SquareEnd(radius) - 1 :
                   SquareCell(radius, i) \in DOMAIN smoothed_height_map })

\* C2: each smoothing pass is computed from a single snapshot: the value a
\* cell holds after a pass is computed from the values it and its neighbours
\* held when the pass began, whatever the iteration order.
C2_SnapshotPass ==
  PassJustDone => SnapshotPass(pass_start[pass], smoothed_height_map)

\* C3: after the two smoothing passes no two 4-connected neighbouring Cells
\* differ in height by more than 2.
C3_DeltaAtMost2 ==
  pass = SmoothPasses =>
    \A a, b \in DOMAIN smoothed_height_map :
      Adjacent(a, b) =>
        Abs(smoothed_height_map[a] - smoothed_height_map[b]) <= 2

\* the water keys of the column of cell c: y = h+1 .. water_threshold
WaterKeysOf(c) ==
  { << c[1], y, c[2] >> : y \in smoothed_height_map[c] + 1 .. water_threshold }

\* the keys of column c that hold water in the BlockGrid
WaterIn(c) ==
  { k \in DOMAIN blocks : k[1] = c[1] /\ k[3] = c[2] /\ blocks[k] = WATER }

\* column (x,z) is farther than radius - 2 from the origin
EdgeColumn(x, z) ==
  radius < 2 \/ x * x + z * z > (radius - 2) * (radius - 2)

\* C4 as stated: in the produced artifact every water block lies in a column
\* whose smoothed height h is below water_threshold, and every such column
\* holds exactly water_threshold - h water blocks, at y = h+1 .. water_threshold.
C4_WaterColumnsInArtifact ==
  pc = "done" =>
    /\ \A k \in DOMAIN blocks :
         blocks[k] = WATER =>
           /\ << k[1], k[3] >> \in DOMAIN smoothed_height_map
           /\ smoothed_height_map[<< k[1], k[3] >>] < water_threshold
    /\ \A c \in DOMAIN smoothed_height_map :
         smoothed_height_map[c] < water_threshold =>
           /\ WaterIn(c) = WaterKeysOf(c)
           /\ Cardinality(WaterIn(c)) =
                water_threshold - smoothed_height_map[c]

\* C4 amended: every water block lies in a column with smoothed height h below
\* water_threshold, at a y in h+1 .. water_threshold; when the Voxelizer
\* finishes every such column holds exactly water_threshold - h water blocks
\* there; in the artifact each of these keys still holds water unless the
\* DomeBuilder overwrote it with wall material: the boundary wall at y <= h+4
\* of a column farther than radius - 2 from the origin, the apex platform at
\* y = dome_height + max_height within distance 5, or a ceiling panel at
\* y >= max_height + wall_height + skip_rows.
C4_WaterColumns ==
  /\ \A k \in DOMAIN blocks :
       blocks[k] = WATER =>
         /\ << k[1], k[3] >> \in DOMAIN smoothed_height_map
         /\ k \in WaterKeysOf(<< k[1], k[3] >>)
  /\ pc = "wall" =>
       \A c \in DOMAIN smoothed_height_map :
         /\ WaterIn(c) = WaterKeysOf(c)
         /\ smoothed_height_map[c] < water_threshold =>
              Cardinality(WaterIn(c)) = water_threshold - smoothed_height_map[c]
  /\ pc = "done" =>
       \A c \in DOMAIN smoothed_height_map :
         \A k \in WaterKeysOf(c) :
           LET byWall == /\ EdgeColumn(c[1], c[2])
                         /\ k[2] <= smoothed_height_map[c] + base_wall_height
               byApex == /\ k[2] = dome_height + max_height
                         /\ c[1] * c[1] + c[2] * c[2] <= 25
               panelLevel == k[2] >= max_height + base_wall_height + skip_rows
           IN /\ k \in DOMAIN blocks
              /\ blocks[k] \in { WATER, SHADOWROCK }
              /\ (byWall \/ byApex) => blocks[k] = SHADOWROCK
              /\ (~ byWall /\ ~ byApex /\ ~ panelLevel) => blocks[k] = WATER

\* an artifact with a flooded inner column that kept all its water and a
\* flooded edge column whose water the boundary wall replaced
C4_Witness ==
  /\ pc = "done"
  /\ \E c \in DOMAIN smoothed_height_map :
       /\ ~ EdgeColumn(c[1], c[2])
       /\ smoothed_height_map[c] + 2 <= water_threshold
       /\ WaterIn(c) = WaterKeysOf(c)
  /\ \E c \in DOMAIN smoothed_height_map :
       /\ EdgeColumn(c[1], c[2])
       /\ smoothed_height_map[c] < water_threshold
       /\ blocks[<< c[1], smoothed_height_map[c] + 1, c[2] >>] = SHADOWROCK

\* C5: when the Voxelizer finishes, every column of smoothed height h holds
\* id 1 at every y with 0 <= y < h, and at y = h id 2 if its patch value is
\* above -0.1 and id 1 otherwise (exactly -0.1 gives 1); above h it holds
\* nothing but water.
C5_VoxelColumns ==
  pc = "wall" =>
    /\ \A c \in DOMAIN smoothed_height_map :
         LET h == smoothed_height_map[c]
         IN /\ \A y \in 0 .. h - 1 :
                 /\ << c[1], y, c[2] >> \in DOMAIN blocks
                 /\ blocks[<< c[1], y, c[2] >>] = VOIDSOIL
            /\ << c[1], h, c[2] >> \in DOMAIN blocks
            /\ blocks[<< c[1], h, c[2] >>] =
                 IF patch_map[c] > -1 THEN VOIDGRASS ELSE VOIDSOIL
    /\ \A k \in DOMAIN blocks :
         /\ << k[1], k[3] >> \in DOMAIN smoothed_height_map
         /\ k[2] >= 0
         /\ k[2] > smoothed_height_map[<< k[1], k[3] >>] => blocks[k] = WATER

\* the Voxelizer is done; a column of height >= 2 with patch value exactly
\* -0.1 is topped with soil and another column is topped with grass
C5_Witness ==
  /\ pc = "wall"
  /\ \E c \in DOMAIN smoothed_height_map :
       /\ patch_map[c] = -1
       /\ smoothed_height_map[c] >= 2
       /\ blocks[<< c[1], smoothed_height_map[c], c[2] >>] = VOIDSOIL
  /\ \E c \in DOMAIN smoothed_height_map :
       /\ patch_map[c] > -1
       /\ blocks[<< c[1], smoothed_height_map[c], c[2] >>] = VOIDGRASS

\* C6: the boundary-wall pass writes id 3 at exactly the keys (x,y,z) with
\* (x,z) a valid Cell farther than radius - 2 from the origin and
\* h+1 <= y <= h+4 for the terrain height h of (x,z); it writes no block
\* outside the world disk.
C6_WallKeys ==
  pc = "panel_count" =>
    /\ \A k \in DOMAIN writes : writes[k] = SHADOWROCK
    /\ DOMAIN writes =
         UNION { { << c[1], y, c[2] >> :
                     y \in smoothed_height_map[c] + 1 ..
                           smoothed_height_map[c] + 4 }
                 : c \in { d \in Disk(radius) : EdgeColumn(d[1], d[2]) } }

\* the latest step was a ceiling panel: writes holds that panel's writes
PanelJustRan == panel.valid /\ pc \in { "panels", "apex" }

\* C7: no ceiling-panel write targets a y below max_height + wall_height +
\* skip_rows, and every panel write targets an (x,z) inside the world disk and
\* inside the panel's own disk.
C7_PanelWrites ==
  PanelJustRan =>
    \A k \in DOMAIN writes :
      /\ writes[k] = SHADOWROCK
      /\ k[2] >= max_height + base_wall_height + skip_rows
      /\ k[1] * k[1] + k[3] * k[3] <= radius * radius
      /\ (k[1] - panel.center_x) * (k[1] - panel.center_x) +
         (k[3] - panel.center_z) * (k[3] - panel.center_z) <=
           panel.panel_radius * panel.panel_radius

\* a panel wrote at exactly the threshold height, and the threshold left a
\* column of its footprint without any write
C7_Witness ==
  /\ PanelJustRan
  /\ \E k \in DOMAIN writes :
       k[2] = max_height + base_wall_height + skip_rows
  /\ \E c \in Disk(radius) :
       /\ (c[1] - panel.center_x) * (c[1] - panel.center_x) +
          (c[2] - panel.center_z) * (c[2] - panel.center_z) <=
            panel.panel_radius * panel.panel_radius
       /\ \A k \in DOMAIN writes : << k[1], k[3] >> # c

\* C8 as stated: a panel whose dome elevation at the sampled centre distance
\* is below max_height + wall_height + skip_rows writes zero blocks.
C8_CentreBelowThreshold ==
  (PanelJustRan /\
   panel.dome_y_center < max_height + base_wall_height + skip_rows) =>
    writes = Empty

\* C8 amended: the threshold applies per column: a panel writes no block in a
\* column (x,z) whose own dome elevation (the projection at the distance of
\* (x,z) from the origin, plus max_height) is below max_height + wall_height
\* + skip_rows.  dome_height * sqrt(1 - d^2/radius^2) >= wall_height +
\* skip_rows is stated without the square root.
C8_ColumnBelowThreshold ==
  PanelJustRan =>
    \A k \in DOMAIN writes :
      /\ dome_height >= 0
      /\ dome_height * dome_height *
           (radius * radius - (k[1] * k[1] + k[3] * k[3])) >=
         (base_wall_height + skip_rows) * (base_wall_height + skip_rows) *
           radius * radius

\* a panel whose centre elevation is below the threshold wrote blocks
C8_Witness ==
  /\ PanelJustRan
  /\ panel.dome_y_center < max_height + base_wall_height + skip_rows
  /\ writes # Empty

\* C9: once the apex pass has run, every (x,z) with x^2 + z^2 <= 25 holds id 3
\* at y = dome_height + max_height, whatever was there before; the pass
\* writes at those keys and at no other.
C9_ApexPlatform ==
  LET apex == { << c[1], dome_height + max_height, c[2] >> :
                  c \in { d \in (-5 .. 5) \X (-5 .. 5) :
                            d[1] * d[1] + d[2] * d[2] <= 25 } }
  IN /\ pc \in { "save", "done" } =>
          \A k \in apex : k \in DOMAIN blocks /\ blocks[k] = SHADOWROCK
     /\ pc = "save" => DOMAIN writes = apex

\* the apex pass has just run on a world smaller than the platform and has
\* replaced the top terrain block of the centre column
C9_Witness ==
  /\ pc = "save"
  /\ radius < 5
  /\ dome_height = 0
  /\ smoothed_height_map[<< 0, 0 >>] = max_height
  /\ blocks[<< 0, max_height, 0 >>] = SHADOWROCK
  /\ blocks[<< 5, max_height, 0 >>] = SHADOWROCK

\* C10 as stated: no write replaces an existing entry by a different id,
\* except a ceiling-panel write that lands on a terrain block (id 1 or 2).
C10_OnlyPanelsOverwrite ==
  [][ \A k \in DOMAIN writes' \cap DOMAIN blocks :
        writes'[k] # blocks[k] =>
          (pc = "panels" /\ blocks[k] \in { VOIDSOIL, VOIDGRASS }) ]_vars

\* C10 amended: no write replaces an existing entry by a different id, except
\* a DomeBuilder write (boundary wall, ceiling panel or apex platform, always
\* id 3) that lands on a block the Voxelizer wrote (id 1, 2 or 4); the
\* Voxelizer's own writes never target a key that was already written.
C10_OnlyDomeOverwrites ==
  [][ /\ \A k \in DOMAIN writes' \cap DOMAIN blocks :
          writes'[k] # blocks[k] =>
            /\ pc \in { "wall", "panels", "apex" }
            /\ writes'[k] = SHADOWROCK
            /\ blocks[k] \in { VOIDSOIL, VOIDGRASS, WATER }
      /\ pc = "voxel" => DOMAIN writes' \cap DOMAIN blocks = {} ]_vars

\* the boundary wall has just replaced the water above a flooded edge column
C10_Witness ==
  /\ pc = "panel_count"
  /\ \E c \in DOMAIN smoothed_height_map :
       /\ smoothed_height_map[c] < water_threshold
       /\ << c[1], smoothed_height_map[c] + 1, c[2] >> \in DOMAIN writes
       /\ blocks[<< c[1], smoothed_height_map[c] + 1, c[2] >>] = SHADOWROCK

\* ------------------------------------------------- entities (SpecEntities)
\* the Cell whose footprint centre (x + 0.5, z + 0.5) an entity key names
EntityCell(k) == << (k[1] - 5000) \div 10000, (k[3] - 5000) \div 10000 >>

\* the latest entity is recorded under its key, for the cell it was drawn for
PlacedRecorded ==
  placed.valid =>
    /\ placed.key \in DOMAIN entities
    /\ EntityCell(placed.key) = placed.cell
    /\ entities[placed.key].modelScale = placed.scale

\* C11: every emitted Entity comes from a valid Cell that is land (smoothed
\* height > water_threshold; equal is not eligible) and strictly interior
\* (distance from the origin < radius - 5), whatever the draws.
C11_EntitiesOnInnerLand ==
  /\ PlacedRecorded
  /\ \A k \in DOMAIN entities :
       LET c == EntityCell(k)
       IN /\ c \in DOMAIN smoothed_height_map
          /\ smoothed_height_map[c] > water_threshold
          /\ radius > 5
          /\ c[1] * c[1] + c[2] * c[2] < (radius - 5) * (radius - 5)

\* a finished run that emitted an entity although an inner cell with a
\* positive placement chance has a height equal to the water threshold and
\* carries none
C11_Witness ==
  /\ pc = "done"
  /\ entities # Empty
  /\ model_density > 0
  /\ \E c \in DOMAIN smoothed_height_map :
       /\ c[1] * c[1] + c[2] * c[2] < (radius - 5) * (radius - 5)
       /\ smoothed_height_map[c] = water_threshold
       /\ model_placement_noise[c] > -10
       /\ \A k \in DOMAIN entities : EntityCell(k) # c

\* C12: an Entity placed on Cell (x,z) of smoothed height h with scale s has
\* the position (x + 0.5, h + 1 + s/2, z + 0.5) and its key is that position
\* formatted with 4 decimals (each coordinate rounded to the nearest
\* 1/10000); s = 2.0 and h = 3 give Y = 5.0.
C12_EntityPosition ==
  /\ PlacedRecorded
  /\ \A k \in DOMAIN entities :
       LET c == EntityCell(k)
           h == smoothed_height_map[c]
           twiceY == 2 * (h + 1) * Unit + entities[k].modelScale
           gap == 2 * (Unit \div 10000) * k[2] - twiceY
       IN /\ k[1] = 10000 * c[1] + 5000
          /\ k[3] = 10000 * c[2] + 5000
          /\ gap <= Unit \div 10000
          /\ -gap <= Unit \div 10000
          /\ (entities[k].modelScale = 2 * Unit /\ h = 3) => k[2] = 50000

\* an entity of scale 2.0 on a cell of height 3, keyed at Y = 5.0000, and an
\* entity whose Y has more than 4 decimals
C12_Witness ==
  /\ \E k \in DOMAIN entities :
       /\ entities[k].modelScale = 2 * Unit
       /\ smoothed_height_map[EntityCell(k)] = 3
       /\ k[2] = 50000
  /\ \E k \in DOMAIN entities :
       entities[k].modelScale % (2 * (Unit \div 10000)) # 0

\* C13: the scale s of every emitted Entity satisfies min_scale <= s <=
\* max_scale of the model definition whose URI it records, with 0.9 and 1.1
\* used when the definition omits a bound.
C13_ScaleWithinBounds ==
  \A k \in DOMAIN entities :
    \A m \in 1 .. Len(environment_models) :
      environment_models[m].uri = entities[k].modelUri =>
        LET lo == IF "min_scale" \in DOMAIN environment_models[m]
                  THEN environment_models[m].min_scale ELSE (9 * Unit) \div 10
            hi == IF "max_scale" \in DOMAIN environment_models[m]
                  THEN environment_models[m].max_scale ELSE (11 * Unit) \div 10
        IN lo <= entities[k].modelScale /\ entities[k].modelScale <= hi

\* C14: the rotation of every emitted Entity has x = 0 and z = 0 and unit
\* norm, with y = sin(theta/2) and w = cos(theta/2) for the yaw theta drawn in
\* [0, 2*pi): y >= 0, and w = 1 if y = 0.  (Sine and cosine in fifths.)
C14_YawQuaternion ==
  /\ \A k \in DOMAIN entities :
       LET q == entities[k].rigidBodyOptions.rotation
       IN /\ q.x = 0
          /\ q.z = 0
          /\ q.y * q.y + q.w * q.w = 25
          /\ q.y >= 0
          /\ q.y = 0 => q.w = 5
  /\ placed.valid =>
       /\ placed.key \in DOMAIN entities
       /\ entities[placed.key].rigidBodyOptions.rotation.y = SinHalf(placed.yaw)
       /\ entities[placed.key].rigidBodyOptions.rotation.w = CosHalf(placed.yaw)

\* an entity turned by less than half a turn and one turned by more
C14_Witness ==
  /\ \E k \in DOMAIN entities :
       /\ entities[k].rigidBodyOptions.rotation.w > 0
       /\ entities[k].rigidBodyOptions.rotation.y > 0
  /\ \E k \in DOMAIN entities :
       /\ entities[k].rigidBodyOptions.rotation.w < 0
       /\ entities[k].rigidBodyOptions.rotation.y > 0

\* --------------------------------------------------- runs and their draws
PanelTags == { "panel_count", "panel_angle", "panel_dist", "panel_radius" }
EntityTags == { "place", "model", "scale", "yaw" }
NoEntityDraw(d) == \A i \in 1 .. Len(d) : d[i] \notin EntityTags

\* C15: with an empty list of model definitions the run completes
\* without error, the Entity map of the artifact is empty and the
\* EntityScatterer is a no-op that takes no draw.
C15_EmptyListCompletes ==
  environment_models = << >> =>
    /\ err = "none"
    /\ pc \notin { "error", "models", "scatter" }
    /\ entities = Empty
    /\ NoEntityDraw(draws)
    /\ pc = "done" => saved.entities = Empty

\* the combined noise is the same on every valid Cell
ConstantNoise == Cardinality({ height_map[c] : c \in DOMAIN height_map }) = 1

\* C16: when the combined noise is the same on every valid Cell, normalization
\* raises no error and gives every valid Cell the height min_height.
C16_DegenerateRange ==
  (pc # "normalize" /\ ConstantNoise) =>
    /\ DOMAIN normalized_height_map = DOMAIN height_map
    /\ \A c \in DOMAIN height_map : normalized_height_map[c] = min_height
    /\ pc = "smooth" => err = "none"

\* a constant field on more than one cell has just been normalized, with
\* max_height above min_height
C16_Witness ==
  /\ pc = "smooth"
  /\ pass = 0
  /\ ConstantNoise
  /\ Cardinality(DOMAIN height_map) > 1
  /\ max_height > min_height
  /\ normalized_height_map[<< 0, 0 >>] = min_height

\* C17: when the observed minimum and maximum of the combined noise differ
\* and min_height <= max_height, after normalization at least one valid Cell
\* has height min_height and at least one has height max_height.
C17_FullRangeUsed ==
  (/\ pc # "normalize"
   /\ \E a, b \in DOMAIN height_map : height_map[a] # height_map[b]
   /\ min_height <= max_height) =>
    /\ \E c \in DOMAIN normalized_height_map :
         normalized_height_map[c] = min_height
    /\ \E c \in DOMAIN normalized_height_map :
         normalized_height_map[c] = max_height

\* a field with three distinct noise values has been normalized to a range of
\* at least three heights
C17_Witness ==
  /\ pc = "smooth"
  /\ Cardinality({ height_map[c] : c \in DOMAIN height_map }) = 3
  /\ max_height >= min_height + 2
  /\ \E c \in DOMAIN normalized_height_map :
       normalized_height_map[c] = max_height

\* the scenario of C18
FlatUnitWorld ==
  /\ radius = 1
  /\ \A c \in DOMAIN height_map : height_map[c] = 0
  /\ \A c \in DOMAIN patch_map : patch_map[c] = 0
  /\ \A c \in DOMAIN model_placement_noise : model_placement_noise[c] = 0
  /\ min_height = 0
  /\ max_height = 4
  /\ water_threshold = 0

\* C18: with radius 1, every noise field constantly 0, min_height 0,
\* max_height 4 and water_threshold 0 every valid Cell gets height 0 and the
\* BlockGrid holds exactly one top-surface block, at y = 0, for each of the 5
\* Cells (0,0), (1,0), (-1,0), (0,1), (0,-1), no subsurface-fill block and no
\* water block.
C18_FlatUnitWorld ==
  (FlatUnitWorld /\ pc \in { "wall", "done" }) =>
    /\ DOMAIN smoothed_height_map =
         { << 0, 0 >>, << 1, 0 >>, << -1, 0 >>, << 0, 1 >>, << 0, -1 >> }
    /\ \A c \in DOMAIN smoothed_height_map : smoothed_height_map[c] = 0
    /\ { k \in DOMAIN blocks : blocks[k] = VOIDGRASS } =
         { << 0, 0, 0 >>, << 1, 0, 0 >>, << -1, 0, 0 >>, << 0, 0, 1 >>,
           << 0, 0, -1 >> }
    /\ \A k \in DOMAIN blocks :
         blocks[k] # VOIDSOIL /\ blocks[k] # WATER /\ k[2] >= 0
    /\ pc = "wall" => Cardinality(DOMAIN blocks) = 5
    /\ pc = "done" => saved.blocks = blocks

\* the artifact of the scenario: five grass tops at y = 0 under the wall and
\* the platform
C18_Witness ==
  /\ FlatUnitWorld
  /\ pc = "done"
  /\ \A c \in DOMAIN smoothed_height_map :
       saved.blocks[<< c[1], 0, c[2] >>] = VOIDGRASS
  /\ Cardinality(DOMAIN smoothed_height_map) = 5
  /\ Cardinality(DOMAIN saved.blocks) > 5

\* the block id the Voxelizer gives key k, from the heights and the patch map
VoxelId(k) ==
  LET c == << k[1], k[3] >>
      h == smoothed_height_map[c]
  IN IF k[2] < h THEN VOIDSOIL
     ELSE IF k[2] > h THEN WATER
     ELSE IF patch_map[c] > -1 THEN VOIDGRASS ELSE VOIDSOIL

\* key k is written by the Voxelizer
VoxelKey(k) ==
  /\ << k[1], k[3] >> \in DOMAIN smoothed_height_map
  /\ k[2] >= 0
  /\ k[2] <= Max2(smoothed_height_map[<< k[1], k[3] >>], water_threshold)

\* C19: the normalized heights, the smoothed heights and the Voxelizer's
\* writes are functions of the parameters and the noise fields alone: no draw
\* is taken before the Voxelizer has finished, and when it has just finished,
\* while entities are scattered, and at the end of the run, whatever draws
\* were taken and whatever the model list is, the normalized map is the
\* normalization of the noise, the smoothed map is its two in-place passes,
\* and the blocks other than wall material are the terrain and water fill of
\* the smoothed map.
C19_TerrainIgnoresDraws ==
  /\ pc \in { "normalize", "smooth", "voxel" } => draws = << >>
  /\ (pc \in { "models", "scatter", "wall", "done", "error" } /\
      pass = SmoothPasses) =>
       LET vals == { height_map[c] : c \in DOMAIN height_map }
           mn == Min(vals)
           rng == IF Max(vals) = mn THEN 1 ELSE Max(vals) - mn
       IN /\ DOMAIN normalized_height_map = DOMAIN height_map
          /\ \A c \in DOMAIN height_map :
               normalized_height_map[c] =
                 min_height +
                 ((height_map[c] - mn) * (max_height - min_height)) \div rng
          /\ pass_start[1] = normalized_height_map
          /\ InPlacePass(pass_start[1], pass_start[2])
          /\ InPlacePass(pass_start[2], smoothed_height_map)
          /\ \A k \in DOMAIN blocks :
               blocks[k] # SHADOWROCK => (VoxelKey(k) /\ blocks[k] = VoxelId(k))
          /\ \A c \in DOMAIN smoothed_height_map :
               \A y \in 0 .. Max2(smoothed_height_map[c], water_threshold) :
                 /\ << c[1], y, c[2] >> \in DOMAIN blocks
                 /\ blocks[<< c[1], y, c[2] >>] \in
                      { VoxelId(<< c[1], y, c[2] >>), SHADOWROCK }

\* a finished run that took entity draws and the panel-count draw and emitted
\* an entity, on a world that is not flat
C19_Witness ==
  /\ pc = "done"
  /\ entities # Empty
  /\ Len(draws) >= 5
  /\ ~ ConstantNoise

\* a step that takes an EntityScatterer draw or emits an Entity
EntityStep ==
  \/ entities' # entities
  \/ Len(draws') > Len(draws) /\ draws'[Len(draws')] \in EntityTags

\* C20 as stated: the DomeBuilder runs before the EntityScatterer: when the
\* EntityScatterer takes a draw or emits an Entity, the panel count has been
\* drawn and the DomeBuilder's last write, the apex platform, is in place.
C20_DomeBeforeScatter ==
  [][ EntityStep =>
        /\ \E i \in 1 .. Len(draws) : draws[i] = "panel_count"
        /\ << 0, dome_height + max_height, 0 >> \in DOMAIN blocks
        /\ blocks[<< 0, dome_height + max_height, 0 >>] = SHADOWROCK ]_vars

\* C20 amended: the EntityScatterer runs between the Voxelizer and the
\* DomeBuilder: every EntityScatterer draw and every Entity emission happens
\* after the Voxelizer's last write and before the first DomeBuilder write and
\* the first panel draw; the DomeBuilder and the MapAssembler emit no Entity.
C20_ScatterBeforeDome ==
  [][ /\ EntityStep =>
           /\ pc = "scatter"
           /\ \A k \in DOMAIN blocks : blocks[k] # SHADOWROCK
           /\ \A i \in 1 .. Len(draws) : draws[i] \notin PanelTags
           /\ \A c \in DOMAIN smoothed_height_map :
                << c[1], smoothed_height_map[c], c[2] >> \in DOMAIN blocks
      /\ pc \in { "wall", "panel_count", "panels", "apex", "save" } =>
           ~ EntityStep ]_vars

\* a finished run whose draws are entity draws followed by the draws of a
\* panel, with an entity in the artifact
C20_Witness ==
  /\ pc = "done"
  /\ entities # Empty
  /\ Len(draws) = 8
  /\ draws[1] = "place"
  /\ draws[4] = "yaw"
  /\ draws[5] = "panel_count"
  /\ draws[8] = "panel_radius"
  /\ \E k \in DOMAIN blocks : blocks[k] = SHADOWROCK

\* ------------------------------------------------- persistence and errors
\* every stage before the MapAssembler has run to its end
StagesComplete ==
  /\ err = "none"
  /\ pass = SmoothPasses
  /\ panels_done = panel_count
  /\ Key(0, dome_height + max_height, 0) \in DOMAIN blocks

\* C21: the artifact is persisted at most once per run and only after every
\* stage has completed: a run that raises an error has written nothing to the
\* output file, and a run that completes returns exactly the structure that
\* was written (block-type registry, BlockGrid, Entity map).
C21_PersistedOnceAtEnd ==
  [][ /\ saved # << >> => saved' = saved
      /\ saved' # saved => (pc = "save" /\ StagesComplete)
      /\ pc' = "error" => saved' = << >>
      /\ pc' = "done" =>
           saved' = [blockTypes |-> block_types, blocks |-> blocks',
                     entities |-> entities'] ]_vars

\* a completed run whose artifact holds terrain, wall material and an entity
C21_Witness ==
  /\ pc = "done"
  /\ entities # Empty
  /\ saved.entities = entities
  /\ saved.blocks = blocks
  /\ \E k \in DOMAIN saved.blocks : saved.blocks[k] = SHADOWROCK

\* C22: every run that fails on invalid parameters (negative radius, radius 0
\* with a panel, min_panels > max_panels, min_panel_size > max_panel_size, a
\* model definition without a URI) ends in an error classified as a
\* configuration error, never in an unclassified arithmetic, lookup or
\* empty-sequence error.
C22_InvalidParametersTyped ==
  pc = "error" =>
    err \notin { "ZeroDivisionError", "KeyError", "ValueError" }

\* C23: for every radius >= 1 and every sequence of draws the dome projection
\* is never evaluated at a distance beyond the radius: neither the evaluation
\* at the panel centre (line 266) nor the evaluation at a column of a panel
\* (line 276) raises a square-root domain error.
C23_NoDomainError ==
  radius >= 1 => ~ (err = "ValueError" /\ err_at \in { 266, 276 })

\* a panel at the farthest sampled distance has been written although part of
\* its footprint square lies outside the world disk
C23_Witness ==
  /\ panel.valid
  /\ err = "none"
  /\ radius >= 1
  /\ panel.dist10 = 9
  /\ writes # Empty
  /\ \E d \in (-panel.panel_radius .. panel.panel_radius) \X
               (-panel.panel_radius .. panel.panel_radius) :
       /\ d[1] * d[1] + d[2] * d[2] <= panel.panel_radius * panel.panel_radius
       /\ ~ InDisk(radius, panel.center_x + d[1], panel.center_z + d[2])

\* C24: smoothing preserves the height range: with min_height <= max_height,
\* after each cell update and after each of the two passes every Cell's
\* height is in [min_height, max_height] and the set of Cells of the map is
\* unchanged.
C24_SmoothingKeepsRange ==
  (pc \in { "smooth", "voxel" } /\ min_height <= max_height) =>
    /\ DOMAIN smoothed_height_map = DOMAIN height_map
    /\ \A c \in DOMAIN smoothed_height_map :
         /\ smoothed_height_map[c] >= min_height
         /\ smoothed_height_map[c] <= max_height

\* both passes are done; a cell was raised towards a neighbour that holds
\* max_height, and the map spans at least three heights
C24_Witness ==
  /\ pc = "voxel"
  /\ pass = SmoothPasses
  /\ max_height >= min_height + 2
  /\ \E a, b \in DOMAIN smoothed_height_map :
       /\ smoothed_height_map[a] > normalized_height_map[a]
       /\ smoothed_height_map[b] = max_height
       /\ Adjacent(a, b)

\* the number of successful placement trials among the draws d
Successes(d) == Cardinality({ i \in 1 .. Len(d) : d[i] = "model" })

\* C25: in the produced artifact no Entity stands on a column that contains a
\* water block or a boundary-wall block, each Cell carries at most one
\* Entity, and the number of Entity records equals the number of successful
\* placement trials.
C25_EntitiesOnDryOpenCells ==
  pc = "done" =>
    /\ Cardinality(DOMAIN saved.entities) = Successes(draws)
    /\ \A k \in DOMAIN saved.entities :
         LET c == EntityCell(k)
         IN /\ c \in DOMAIN smoothed_height_map
            /\ \A k2 \in DOMAIN saved.entities : EntityCell(k2) = c => k2 = k
            /\ \A b \in DOMAIN saved.blocks :
                 (b[1] = c[1] /\ b[3] = c[2]) =>
                   /\ saved.blocks[b] # WATER
                   /\ saved.blocks[b] = SHADOWROCK =>
                        b[2] > smoothed_height_map[c] + base_wall_height

\* an artifact with two entities, water and a boundary wall
C25_Witness ==
  /\ pc = "done"
  /\ Cardinality(DOMAIN saved.entities) = 2
  /\ Successes(draws) = 2
  /\ \E b \in DOMAIN saved.blocks : saved.blocks[b] = WATER
  /\ \E b \in DOMAIN saved.blocks :
       saved.blocks[b] = SHADOWROCK /\ b[2] <= max_height + base_wall_height

\* ----------------------------------------------------- ground sampling
\* the key of the topmost block of column c of the block map B
TopKey(B, c) ==
  LET column == { j \in DOMAIN B : j[1] = c[1] /\ j[3] = c[2] }
  IN CHOOSE k \in column : \A j \in column : j[2] <= k[2]

\* the columns of B whose topmost block is voidsoil or voidgrass
GroundColumns(B) ==
  { c \in { << k[1], k[3] >> : k \in DOMAIN B } :
      B[TopKey(B, c)] \in { VOIDSOIL, VOIDGRASS } }

\* C26: for every block map the tool reads, each coordinate (x,y,z) it
\* outputs has y the greatest y of any block in column (x,z) and a block of
\* id 1 or 2 there; no column is output twice; the number of coordinates
\* output is min(SAMPLE_SIZE, number of columns whose topmost block has id 1
\* or 2), SAMPLE_SIZE being 1000 in the source; so no column topped by water
\* or wall material is output.
C26_GroundSample ==
  pc \in { "sampled", "no_ground" } =>
    LET B == saved.blocks
        G == GroundColumns(B)
    IN /\ Len(sampled_coords) = Min2(sample_size, Cardinality(G))
       /\ (pc = "no_ground") = (G = {})
       /\ \A i \in 1 .. Len(sampled_coords) :
            LET e == sampled_coords[i]
            IN /\ << e.x, e.z >> \in G
               /\ TopKey(B, << e.x, e.z >>) = << e.x, e.y, e.z >>
               /\ B[<< e.x, e.y, e.z >>] \in { 1, 2 }
               /\ \A j \in 1 .. Len(sampled_coords) :
                    (sampled_coords[j].x = e.x /\ sampled_coords[j].z = e.z)
                      => j = i

\* two ground columns were sampled from a map that has more of them, and that
\* has a ground block under wall material in another column
C26_Witness ==
  /\ pc = "sampled"
  /\ sample_size = 2
  /\ Len(sampled_coords) = 2
  /\ Cardinality(GroundColumns(saved.blocks)) > 2
  /\ \E k \in DOMAIN saved.blocks :
       /\ saved.blocks[k] \in { VOIDSOIL, VOIDGRASS }
       /\ saved.blocks[TopKey(saved.blocks, << k[1], k[3] >>)] = SHADOWROCK

TypeOK ==
  /\ pc \in { "normalize", "smooth", "voxel", "models", "scatter", "wall",
              "panel_count", "panels", "apex", "save", "done", "error",
              "filter", "sample", "sampled", "no_ground" }
  /\ err \in { "none", "ZeroDivisionError", "KeyError", "ValueError" }
  /\ err_at \in { 0, 103, 232, 260, 266, 268, 276 }
  /\ (err = "none") = (err_at = 0)
  /\ (pc = "error") = (err # "none")
  /\ \A i \in 1 .. Len(draws) :
       draws[i] \in { "place", "model", "scale", "yaw", "panel_count",
                      "panel_angle", "panel_dist", "panel_radius" }
  /\ saved # << >> =>
       pc \in { "done", "filter", "sample", "sampled", "no_ground" }
  /\ sample_size \in SampleSizes
  /\ Len(sampled_coords) <= Len(ground_coords)
  /\ block_order # << >> =>
       /\ Len(block_order) = Cardinality(DOMAIN saved.blocks)
       /\ { block_order[i] : i \in 1 .. Len(block_order) } = DOMAIN saved.blocks
  /\ Len(ground_coords) <= Len(top_blocks)
  /\ \A k \in DOMAIN blocks : blocks[k] \in { VOIDSOIL, VOIDGRASS, SHADOWROCK, WATER }
  /\ DOMAIN smoothed_height_map \subseteq Cells(radius)
====
